---- MODULE Spec2Model ----
(***************************************************************************)
(* A model of the two Mount Doom trackers of this repository:              *)
(*   - MountDoomTracker (src/unnamed/part_000): a ledger of entries with   *)
(*     add / delete last / edit last and a reward toast on a timer;        *)
(*   - App (src/src/backup.jsx): a ledger of dated logs with add / remove  *)
(*     by id, a goal, and a ramp-up plan.                                  *)
(* Miles in the ledgers are whole numbers.  Plan rates are counted in      *)
(* half miles (0.5 mile = 1), the step of the plan's inputs.  Text typed   *)
(* into an input is a sequence of one-character strings.                   *)
(***************************************************************************)
EXTENDS Integers, Sequences, FiniteSets, TLC

VARIABLES
  \* MountDoomTracker (part_000)
  entries, inputMiles, isEditingLast, editMiles, toast, toastTimerRef, timers, nextId, ev,
  \* App (backup.jsx)
  logs, entryMiles, entryDate, appToast, goalMiles, appNextId, appEv,
  \* App's ramp-up plan, the goal date, and the host's clock and time zone
  planEnabled, planStartDate, capMiles, daysPerWeek, rampStages, goalDate, today, dstStart,
  \* the text in the local store, the text read from it at startup, and how
  \* far the program has come
  store, savedText, phase,
  \* the milestone resolver applied to drawn totals
  probe,
  \* which of the repository's two programs is running
  program

trackerVars ==
  <<entries, inputMiles, isEditingLast, editMiles, toast, toastTimerRef, timers, nextId, ev>>
appVars == <<logs, entryMiles, entryDate, appToast, goalMiles, appNextId, appEv>>
planVars == <<planEnabled, planStartDate, capMiles, daysPerWeek, rampStages, goalDate>>
hostVars == <<today, dstStart>>
storeVars == <<store, savedText, phase>>
vars == <<trackerVars, appVars, planVars, hostVars, storeVars, probe, program>>

----------------------------------------------------------------------------
(* Bounds of the model *)

\* the longest ledger the model builds (part_000 entries, backup.jsx logs)
MaxEntries == 2
\* how many ids crypto.randomUUID() hands out in one run
MaxIds == 2
\* how far around each milestone threshold the resolver is probed
Near == 1
\* the last day, counted from day 0, that a plan is asked about
MaxDay == 15
\* the day on which a host zone with daylight saving springs forward
SpringDay == 4
\* the last stage (index from 0) whose inputs the model types into
MaxStageIndex == 0

----------------------------------------------------------------------------
(* Numbers and text *)

NaN == [k |-> "NaN"]
Num(v) == [k |-> "num", v |-> v]
isNaN(x) == x.k = "NaN"

DigitVal ==
  [c \in {"0", "1", "2", "3", "4", "5", "6", "7", "8", "9"} |->
     CASE c = "0" -> 0 [] c = "1" -> 1 [] c = "2" -> 2 [] c = "3" -> 3
       [] c = "4" -> 4 [] c = "5" -> 5 [] c = "6" -> 6 [] c = "7" -> 7
       [] c = "8" -> 8 [] c = "9" -> 9]

IsDigit(c) == c \in DOMAIN DigitVal

\* the number of digits of s from position i on, up to the first non-digit
RECURSIVE DigitRun(_, _)
DigitRun(s, i) ==
  IF i > Len(s) \/ ~IsDigit(s[i]) THEN 0 ELSE 1 + DigitRun(s, i + 1)

\* the value of the n digits of s that start at position i
RECURSIVE DigitsValue(_, _, _)
DigitsValue(s, i, n) ==
  IF n = 0 THEN 0 ELSE DigitsValue(s, i, n - 1) * 10 + DigitVal[s[i + n - 1]]

HasSign(s) == Len(s) > 0 /\ s[1] \in {"-", "+"}

\* parseFloat: an optional sign and the longest run of digits; NaN without one
parseFloat(s) ==
  LET st == IF HasSign(s) THEN 2 ELSE 1
      n == DigitRun(s, st)
      v == DigitsValue(s, st, n)
  IN IF n = 0 THEN NaN
     ELSE Num(IF Len(s) > 0 /\ s[1] = "-" THEN 0 - v ELSE v)

\* Number(text): the empty text is 0; otherwise the whole text must be a number
Number(s) ==
  LET st == IF HasSign(s) THEN 2 ELSE 1
      n == DigitRun(s, st)
      v == DigitsValue(s, st, n)
  IN IF Len(s) = 0 THEN Num(0)
     ELSE IF n = 0 \/ st + n - 1 # Len(s) THEN NaN
     ELSE Num(IF s[1] = "-" THEN 0 - v ELSE v)

DigitChar(d) == CHOOSE c \in DOMAIN DigitVal : DigitVal[c] = d

\* String(n) for a whole number
RECURSIVE String(_)
String(n) ==
  IF n < 0 THEN <<"-">> \o String(0 - n)
  ELSE IF n < 10 THEN <<DigitChar(n)>>
  ELSE String(n \div 10) \o <<DigitChar(n % 10)>>

\* what <input type="number"> hands to onChange: "" or a number's text
InputTexts ==
  { <<>>, <<"0">>, <<"-", "5">>, <<"1", "2", "0">>, <<"6", "0", "0">> }

----------------------------------------------------------------------------
(* Milestones *)

Null == [id |-> "null"]

\* part_000's table: id and miles of each milestone, in table order
MILESTONES ==
  << [id |-> "shire", miles |-> 0],
     [id |-> "bree", miles |-> 120],
     [id |-> "rivendell", miles |-> 570],
     [id |-> "moria", miles |-> 1030],
     [id |-> "lothlorien", miles |-> 1120],
     [id |-> "gondor", miles |-> 1400],
     [id |-> "mountdoom", miles |-> 1800] >>

\* backup.jsx's table
DEFAULT_MILESTONES ==
  << [id |-> "shire", miles |-> 0],
     [id |-> "bree", miles |-> 120],
     [id |-> "rivendell", miles |-> 570],
     [id |-> "moria", miles |-> 1030],
     [id |-> "lorien", miles |-> 1135],
     [id |-> "rauros", miles |-> 1540],
     [id |-> "blackgate", miles |-> 1685],
     [id |-> "cirith", miles |-> 1740],
     [id |-> "doom", miles |-> 1800] >>

milestones == DEFAULT_MILESTONES

Max(S) == CHOOSE x \in S : \A y \in S : y <= x
Min(S) == CHOOSE x \in S : \A y \in S : x <= y

\* getUnlockedMilestone with miles > m.miles for miles >= m.miles
getUnlockedMilestoneStrict(miles) ==
  LET hit == {i \in DOMAIN MILESTONES : miles > MILESTONES[i].miles}
  IN IF hit = {} THEN MILESTONES[1] ELSE MILESTONES[Max(hit)]

\* [...MILESTONES].reverse().find(m => miles >= m.miles) || MILESTONES[0]
getUnlockedMilestone(miles) ==
  LET hit == {i \in DOMAIN MILESTONES : miles >= MILESTONES[i].miles}
  IN IF hit = {} THEN MILESTONES[1] ELSE MILESTONES[Max(hit)]

\* MILESTONES.find(m => m.miles > miles) || null
getNextMilestone(miles) ==
  LET hit == {i \in DOMAIN MILESTONES : MILESTONES[i].miles > miles}
  IN IF hit = {} THEN Null ELSE MILESTONES[Min(hit)]

\* milestones.find(m => totalMiles < m.miles) ?? null
nextMilestone(totalMiles) ==
  LET hit == {i \in DOMAIN milestones : totalMiles < milestones[i].miles}
  IN IF hit = {} THEN Null ELSE milestones[Min(hit)]

\* milestones.filter(m => totalMiles >= m.miles)
reachedMilestones(totalMiles) ==
  LET Reached(m) == totalMiles >= m.miles
  IN SelectSeq(milestones, Reached)

\* reachedMilestones.at(-1) ?? milestones[0]
lastReached(totalMiles) ==
  LET r == reachedMilestones(totalMiles)
  IN IF Len(r) = 0 THEN milestones[1] ELSE r[Len(r)]

\* newly with before <= x.miles for before < x.miles
newlyFromBefore(before, after) ==
  LET Crossed(x) == before <= x.miles /\ after >= x.miles
  IN SelectSeq(milestones, Crossed)

\* addLog's newly: milestones.filter(x => before < x.miles && after >= x.miles)
newly(before, after) ==
  LET Crossed(x) == before < x.miles /\ after >= x.miles
  IN SelectSeq(milestones, Crossed)

----------------------------------------------------------------------------
(* MountDoomTracker (part_000) *)

\* entries.reduce((sum, e) => sum + e.miles, 0)
RECURSIVE totalMiles(_)
totalMiles(es) ==
  IF Len(es) = 0 THEN 0 ELSE totalMiles(SubSeq(es, 1, Len(es) - 1)) + es[Len(es)].miles

\* const lastEntry = entries[entries.length - 1]; Null stands for undefined
lastEntry == IF Len(entries) = 0 THEN Null ELSE entries[Len(entries)]

\* addMilesRejects with value < 0 for value <= 0
addMilesRejectsNegative(value) == isNaN(value) \/ value.v < 0

\* the early return of addMiles: isNaN(value) || value <= 0
addMilesRejects(value) == isNaN(value) \/ value.v <= 0

\* the early return of saveEditLast: isNaN(value) || value <= 0 || !lastEntry
saveEditLastRejects(value, last) == isNaN(value) \/ value.v <= 0 \/ last = Null

\* setEntries(prev => [...prev, {id, miles: value, date, edited: false}])
appendEntry(es, id, value) ==
  Append(es, [id |-> id, miles |-> value, edited |-> FALSE])

\* setEntries(prev => prev.slice(0, -1))
dropLast(es) == SubSeq(es, 1, Len(es) - 1)

\* editLastEntry writing to next[0] for next[next.length - 1]
editFirstEntry(es, value) ==
  [es EXCEPT ![1] = [@ EXCEPT !.miles = value, !.edited = TRUE]]

\* next[next.length - 1] = {...next[next.length - 1], miles: value, edited: true}
editLastEntry(es, value) ==
  [es EXCEPT ![Len(es)] = [@ EXCEPT !.miles = value, !.edited = TRUE]]

\* addMilesEditing without the setIsEditingLast(false)
addMilesKeepsEditing(editing) == editing

\* addMiles: setIsEditingLast(false)
addMilesEditing(editing) == FALSE

\* addMiles: nextUnlocked.id !== prevUnlocked.id
addMilesToasts(prevTotal, nextTotal) ==
  getUnlockedMilestone(nextTotal).id # getUnlockedMilestone(prevTotal).id

\* saveEditLastToasts without nextTotal > prevTotal
saveEditLastToastsAnyChange(prevTotal, nextTotal) ==
  getUnlockedMilestone(nextTotal).id # getUnlockedMilestone(prevTotal).id

\* saveEditLast: nextTotal > prevTotal && nextUnlocked.id !== prevUnlocked.id
saveEditLastToasts(prevTotal, nextTotal) ==
  nextTotal > prevTotal
    /\ getUnlockedMilestone(nextTotal).id # getUnlockedMilestone(prevTotal).id

\* toastTimerRef.current before the first setTimeout: null
NoTimer == 0

\* clearPending without the clearTimeout
clearPendingKeeps(pending, ref) == pending

\* if (toastTimerRef.current) clearTimeout(toastTimerRef.current): the host's
\* pending timers without the one of the handle; clearing a handle whose timer
\* has fired changes nothing
clearPending(pending, ref) == IF ref = NoTimer THEN pending ELSE pending \ {ref}

\* the handle setTimeout returns: one that no pending timer has and that was
\* not handed out the last time
setTimeout(pending, ref) ==
  Min({h \in 1..(Cardinality(pending) + 2) : h \notin pending /\ h # ref})

\* showRewardToast(milestone): the toast names the milestone, the timer of the
\* handle in toastTimerRef is cleared and a new one is scheduled and kept there
showRewardToast(milestone) ==
  LET kept == clearPending(timers, toastTimerRef)
      handle == setTimeout(kept, toastTimerRef)
  IN /\ toast' = milestone.id
     /\ timers' = kept \cup {handle}
     /\ toastTimerRef' = handle

\* the timer of handle h runs its callback after 3600 ms: setToast(null)
timerFires(h) ==
  /\ h \in timers
  /\ toast' = "null"
  /\ timers' = timers \ {h}
  /\ UNCHANGED <<entries, inputMiles, isEditingLast, editMiles, toastTimerRef, nextId, ev>>

\* the host runs the callback of one of the pending timers
toastTimeout == \E h \in timers : timerFires(h)

\* onChange of the "Miles walked" input
setInputMiles ==
  \E t \in InputTexts :
    /\ inputMiles' = t
    /\ UNCHANGED <<entries, isEditingLast, editMiles, toast, toastTimerRef, timers, nextId, ev>>

\* onChange of the edit input, which is rendered only in edit mode
setEditMiles ==
  \E t \in InputTexts :
    /\ isEditingLast
    /\ editMiles' = t
    /\ UNCHANGED <<entries, inputMiles, isEditingLast, toast, toastTimerRef, timers, nextId, ev>>

addMiles ==
  LET value == parseFloat(inputMiles)
      prevTotal == totalMiles(entries)
  IN IF addMilesRejects(value)
     THEN /\ ev' = [op |-> "addMiles", ok |-> FALSE, before |-> entries,
                    input |-> inputMiles, raised |-> <<>>]
          /\ UNCHANGED <<entries, inputMiles, isEditingLast, editMiles, toast,
                         toastTimerRef, timers, nextId>>
     ELSE LET nextTotal == prevTotal + value.v
              nextUnlocked == getUnlockedMilestone(nextTotal)
              fires == addMilesToasts(prevTotal, nextTotal)
          IN /\ Len(entries) < MaxEntries
             /\ nextId <= MaxIds
             /\ entries' = appendEntry(entries, nextId, value.v)
             /\ nextId' = nextId + 1
             /\ inputMiles' = <<>>
             /\ isEditingLast' = addMilesEditing(isEditingLast)
             /\ IF fires THEN showRewardToast(nextUnlocked)
                         ELSE UNCHANGED <<toast, toastTimerRef, timers>>
             /\ ev' = [op |-> "addMiles", ok |-> TRUE, before |-> entries,
                       input |-> inputMiles,
                       raised |-> IF fires THEN <<nextUnlocked.id>> ELSE <<>>]
             /\ UNCHANGED editMiles

deleteLast ==
  IF lastEntry = Null
  THEN /\ ev' = [op |-> "deleteLast", ok |-> FALSE, before |-> entries,
                 input |-> <<>>, raised |-> <<>>]
       /\ UNCHANGED <<entries, inputMiles, isEditingLast, editMiles, toast,
                      toastTimerRef, timers, nextId>>
  ELSE /\ entries' = dropLast(entries)
       /\ isEditingLast' = FALSE
       /\ editMiles' = <<>>
       /\ toast' = "null"
       /\ ev' = [op |-> "deleteLast", ok |-> TRUE, before |-> entries,
                 input |-> <<>>, raised |-> <<>>]
       /\ UNCHANGED <<inputMiles, toastTimerRef, timers, nextId>>

startEditLast ==
  IF lastEntry = Null
  THEN UNCHANGED vars
  ELSE /\ editMiles' = String(lastEntry.miles)
       /\ isEditingLast' = TRUE
       /\ UNCHANGED <<entries, inputMiles, toast, toastTimerRef, timers, nextId, ev>>

\* the Save button is rendered only in edit mode
saveEditLast ==
  LET value == parseFloat(editMiles)
      prevTotal == totalMiles(entries)
  IN /\ isEditingLast
     /\ IF saveEditLastRejects(value, lastEntry)
        THEN /\ ev' = [op |-> "saveEditLast", ok |-> FALSE, before |-> entries,
                       input |-> editMiles, raised |-> <<>>]
             /\ UNCHANGED <<entries, inputMiles, isEditingLast, editMiles, toast,
                            toastTimerRef, timers, nextId>>
        ELSE LET nextTotal == prevTotal - lastEntry.miles + value.v
                 nextUnlocked == getUnlockedMilestone(nextTotal)
                 fires == saveEditLastToasts(prevTotal, nextTotal)
             IN /\ entries' = editLastEntry(entries, value.v)
                /\ isEditingLast' = FALSE
                /\ editMiles' = <<>>
                /\ IF fires THEN showRewardToast(nextUnlocked)
                            ELSE UNCHANGED <<toast, toastTimerRef, timers>>
                /\ ev' = [op |-> "saveEditLast", ok |-> TRUE, before |-> entries,
                          input |-> editMiles,
                          raised |-> IF fires THEN <<nextUnlocked.id>> ELSE <<>>]
                /\ UNCHANGED <<inputMiles, nextId>>

\* the Cancel button is rendered only in edit mode
cancelEditLast ==
  /\ isEditingLast
  /\ isEditingLast' = FALSE
  /\ editMiles' = <<>>
  /\ UNCHANGED <<entries, inputMiles, toast, toastTimerRef, timers, nextId, ev>>

----------------------------------------------------------------------------
(* App (backup.jsx): the ledger of logs and the goal *)

\* the cleared date input: the empty text, which sorts before every date
NoDate == -1

\* the dates the "Date" input of a log is set to, as day numbers
EntryDates == {0, 1}

\* logs.reduce((s, r) => s + Number(r.miles || 0), 0)
RECURSIVE appTotalMiles(_)
appTotalMiles(ls) ==
  IF Len(ls) = 0 THEN 0
  ELSE appTotalMiles(SubSeq(ls, 1, Len(ls) - 1)) + ls[Len(ls)].miles

\* where a stable descending sort puts x among the sorted ls: behind every
\* element whose date is not smaller
insertByDateDesc(ls, x) ==
  LET k == Cardinality({i \in DOMAIN ls : ls[i].date >= x.date})
  IN SubSeq(ls, 1, k) \o <<x>> \o SubSeq(ls, k + 1, Len(ls))

\* ls.sort((a, b) => b.date.localeCompare(a.date)): stable, newest date first
RECURSIVE sortByDateDesc(_)
sortByDateDesc(ls) ==
  IF Len(ls) = 0 THEN <<>>
  ELSE insertByDateDesc(sortByDateDesc(SubSeq(ls, 1, Len(ls) - 1)), ls[Len(ls)])

\* addLogRejects with m < 0 for m <= 0
addLogRejectsNegative(m) == isNaN(m) \/ m.v < 0

\* the early return of addLog: !Number.isFinite(m) || m <= 0
addLogRejects(m) == isNaN(m) \/ m.v <= 0

\* setLogs(prev => [...prev, newLog].sort(...))
addLogLogs(prev, newLog) == sortByDateDesc(Append(prev, newLog))

\* removeLogLogs with x.id === id for x.id !== id
removeLogLogsKeepsTarget(prev, id) ==
  LET Keep(x) == x.id = id
  IN SelectSeq(prev, Keep)

\* setLogs(prev => prev.filter(x => x.id !== id))
removeLogLogs(prev, id) ==
  LET Keep(x) == x.id # id
  IN SelectSeq(prev, Keep)

\* the toast addLog ends with
addLogToast(before, after) ==
  LET nw == newly(before, after)
      nx == nextMilestone(before)
  IN IF Len(nw) > 0
       THEN [kind |-> "Unlocked", name |-> nw[Len(nw)].id, miles |-> 0]
     ELSE IF nx # Null
       THEN [kind |-> "Logged", name |-> "",
             miles |-> IF nx.miles - after > 0 THEN nx.miles - after ELSE 0]
     ELSE [kind |-> "Quest complete", name |-> "", miles |-> 0]

\* clamp(n, min, max) = Math.max(min, Math.min(max, n))
clamp(n, min, max) ==
  LET lo == IF max < n THEN max ELSE n
  IN IF min > lo THEN min ELSE lo

RECURSIVE Gcd(_, _)
Gcd(a, b) == IF b = 0 THEN a ELSE Gcd(b, a % b)

\* the fraction n / d (d # 0) in lowest terms with a positive denominator
Frac(n, d) ==
  LET sn == IF d < 0 THEN 0 - n ELSE n
      sd == IF d < 0 THEN 0 - d ELSE d
      g == Gcd(IF sn < 0 THEN 0 - sn ELSE sn, sd)
  IN [num |-> sn \div g, den |-> sd \div g]

FracLess(x, y) == x.num * y.den < y.num * x.den

\* clamp on fractions
clampFrac(x, min, max) ==
  LET lo == IF FracLess(max, x) THEN max ELSE x
  IN IF FracLess(lo, min) THEN min ELSE lo

\* progressDenom as Math.max(1, goal)
progressDenomAtLeastOne(goal) == IF goal < 1 THEN 1 ELSE goal

\* progressPct: denom = Number(goalMiles) || 1; clamp(total / denom * 100, 0, 100)
progressDenom(goal) == IF goal = 0 THEN 1 ELSE goal

progressPct(total, goal) ==
  clampFrac(Frac(total * 100, progressDenom(goal)), Frac(0, 1), Frac(100, 1))

\* onChange of the "Miles" input
setEntryMiles ==
  \E t \in InputTexts :
    /\ entryMiles' = t
    /\ UNCHANGED <<logs, entryDate, appToast, goalMiles, appNextId, appEv>>

\* onChange of the "Date" input
setEntryDate ==
  \E d \in EntryDates :
    /\ entryDate' = d
    /\ UNCHANGED <<logs, entryMiles, appToast, goalMiles, appNextId, appEv>>

\* onChange of "Goal miles": setGoalMiles(Number(e.target.value))
setGoalMiles ==
  \E t \in InputTexts :
    /\ goalMiles' = Number(t).v
    /\ UNCHANGED <<logs, entryMiles, entryDate, appToast, appNextId, appEv>>

addLog ==
  LET m == Number(entryMiles)
      before == appTotalMiles(logs)
  IN IF addLogRejects(m)
     THEN /\ appToast' = [kind |-> "Enter miles greater than 0", name |-> "", miles |-> 0]
          /\ appEv' = [op |-> "addLog", ok |-> FALSE, before |-> logs,
                       input |-> entryMiles, id |-> 0]
          /\ UNCHANGED <<logs, entryMiles, entryDate, goalMiles, appNextId>>
     ELSE LET after == before + m.v
              newLog == [id |-> appNextId, date |-> entryDate, miles |-> m.v]
          IN /\ Len(logs) < MaxEntries
             /\ appNextId <= MaxIds
             /\ logs' = addLogLogs(logs, newLog)
             /\ appNextId' = appNextId + 1
             /\ entryMiles' = <<>>
             /\ appToast' = addLogToast(before, after)
             /\ appEv' = [op |-> "addLog", ok |-> TRUE, before |-> logs,
                          input |-> entryMiles, id |-> appNextId]
             /\ UNCHANGED <<entryDate, goalMiles>>

\* removeLog(id), for the id of a listed log or any other
removeLog ==
  \E id \in 0..MaxIds :
    /\ logs' = removeLogLogs(logs, id)
    /\ appToast' = [kind |-> "Entry removed.", name |-> "", miles |-> 0]
    /\ appEv' = [op |-> "removeLog", ok |-> TRUE, before |-> logs,
                 input |-> <<>>, id |-> id]
    /\ UNCHANGED <<entryMiles, entryDate, goalMiles, appNextId>>

----------------------------------------------------------------------------
(* App (backup.jsx): the ramp-up plan.  Rates are in half miles. *)

Days == 0..MaxDay

\* DEFAULT_RAMP_STAGES: 4-week blocks at 2.0, 2.5, ... 4.5 miles a day
DEFAULT_RAMP_STAGES ==
  << [weeks |-> 4, milesPerDay |-> 4], [weeks |-> 4, milesPerDay |-> 5],
     [weeks |-> 4, milesPerDay |-> 6], [weeks |-> 4, milesPerDay |-> 7],
     [weeks |-> 4, milesPerDay |-> 8], [weeks |-> 4, milesPerDay |-> 9] >>

\* toDate(iso) = new Date(iso + "T00:00:00"): the hour at which day d starts on
\* the host's clock.  Local midnights after the zone springs forward come one
\* hour sooner; a zone without daylight saving has zone = NoDate.
toDate(d, zone) ==
  d * 24 - (IF zone # NoDate /\ d > zone THEN 1 ELSE 0)

\* daysDiffInclusive: Math.floor(ms / (1000 * 60 * 60 * 24)) + 1
daysDiffInclusive(startISO, endISO, zone) ==
  ((toDate(endISO, zone) - toDate(startISO, zone)) \div 24) + 1

\* the for loop of getStageForDayIndex from stage i (from 1) on
RECURSIVE stageWalk(_, _, _)
stageWalk(remaining, stages, i) ==
  IF i > Len(stages) THEN [stageIndex |-> Len(stages), milesPerDay |-> Null]
  ELSE IF remaining < stages[i].weeks * 7
    THEN [stageIndex |-> i - 1, milesPerDay |-> Num(stages[i].milesPerDay)]
  ELSE stageWalk(remaining - stages[i].weeks * 7, stages, i + 1)

getStageForDayIndex(dayIndex, stages) == stageWalk(dayIndex, stages, 1)

isActiveDay(dayIndex, dpw) == dayIndex % 7 < dpw

\* stageInfo.milesPerDay ?? capMiles
rateOrCap(stageInfo, cap) ==
  IF stageInfo.milesPerDay = Null THEN cap ELSE stageInfo.milesPerDay.v

\* plannedStep with sum = mpd for sum += mpd
plannedStepAssigns(sum, i, stages, cap, dpw) ==
  IF ~isActiveDay(i, dpw) THEN sum
  ELSE rateOrCap(getStageForDayIndex(i, stages), cap)

\* one pass of the loop body of plannedMilesThroughDate for day i
plannedStep(sum, i, stages, cap, dpw) ==
  IF ~isActiveDay(i, dpw) THEN sum
  ELSE sum + rateOrCap(getStageForDayIndex(i, stages), cap)

\* for (let i = 0; i < totalDays; i++) { ... }: the sum after days 0..n-1
RECURSIVE plannedLoop(_, _, _, _)
plannedLoop(n, stages, cap, dpw) ==
  IF n <= 0 THEN 0
  ELSE plannedStep(plannedLoop(n - 1, stages, cap, dpw), n - 1, stages, cap, dpw)

plannedMilesThroughDate(planStartISO, targetISO, stages, cap, dpw, zone) ==
  IF planStartISO = NoDate \/ targetISO = NoDate THEN 0
  ELSE IF toDate(targetISO, zone) < toDate(planStartISO, zone) THEN 0
  ELSE plannedLoop(daysDiffInclusive(planStartISO, targetISO, zone), stages, cap, dpw)

todaysPlannedMiles(planStartISO, todayISOValue, stages, cap, dpw, zone) ==
  IF planStartISO = NoDate THEN 0
  ELSE IF toDate(todayISOValue, zone) < toDate(planStartISO, zone) THEN 0
  ELSE LET dayIndex == daysDiffInclusive(planStartISO, todayISOValue, zone) - 1
       IN IF ~isActiveDay(dayIndex, dpw) THEN 0
          ELSE rateOrCap(getStageForDayIndex(dayIndex, stages), cap)

\* Number(capMiles) || 5, in half miles
capOrDefault(cap) == IF cap = 0 THEN 10 ELSE cap

\* Number(daysPerWeek) || 7
daysPerWeekOrDefault(dpw) == IF dpw = 0 THEN 7 ELSE dpw

plannedToToday ==
  IF ~planEnabled THEN 0
  ELSE plannedMilesThroughDate(planStartDate, today, rampStages,
         capOrDefault(capMiles), daysPerWeekOrDefault(daysPerWeek), dstStart)

plannedToGoal ==
  IF ~planEnabled THEN 0
  ELSE plannedMilesThroughDate(planStartDate, goalDate, rampStages,
         capOrDefault(capMiles), daysPerWeekOrDefault(daysPerWeek), dstStart)

todayTarget ==
  IF ~planEnabled THEN 0
  ELSE todaysPlannedMiles(planStartDate, today, rampStages,
         capOrDefault(capMiles), daysPerWeekOrDefault(daysPerWeek), dstStart)

\* what is typed into the plan's number inputs
PlanTexts == { <<>>, <<"1">>, <<"5">>, <<"2", "5">> }

\* the dates picked for the plan start, and the input cleared
PlanDates == {NoDate, 0, 2}

\* the dates picked for the goal, and the input cleared
GoalDates == {NoDate, MaxDay}

\* a number of whole miles in half miles
HalfMiles(n) == 2 * n

\* onChange of "Enable ramp plan"
setPlanEnabled ==
  /\ planEnabled' = ~planEnabled
  /\ UNCHANGED <<planStartDate, capMiles, daysPerWeek, rampStages, goalDate>>

\* onChange of "Plan start date", which is rendered while the plan is enabled
setPlanStartDate ==
  \E d \in PlanDates :
    /\ planEnabled
    /\ planStartDate' = d
    /\ UNCHANGED <<planEnabled, capMiles, daysPerWeek, rampStages, goalDate>>

\* onChange of "Goal date"
setGoalDate ==
  \E d \in GoalDates :
    /\ goalDate' = d
    /\ UNCHANGED <<planEnabled, planStartDate, capMiles, daysPerWeek, rampStages>>

\* onChange of "Days per week": setDaysPerWeek(clamp(Number(value), 1, 7))
setDaysPerWeek ==
  \E t \in PlanTexts :
    /\ planEnabled
    /\ daysPerWeek' = clamp(Number(t).v, 1, 7)
    /\ UNCHANGED <<planEnabled, planStartDate, capMiles, rampStages, goalDate>>

\* onChange of "Cap miles/day": setCapMiles(clamp(Number(value), 1, 20))
setCapMiles ==
  \E t \in PlanTexts :
    /\ planEnabled
    /\ capMiles' = clamp(HalfMiles(Number(t).v), HalfMiles(1), HalfMiles(20))
    /\ UNCHANGED <<planEnabled, planStartDate, daysPerWeek, rampStages, goalDate>>

\* updateStage(index, "weeks", value): clamp(Math.round(v || 1), 1, 52)
stageWeeks(v) == clamp(IF v = 0 THEN 1 ELSE v, 1, 52)

\* updateStage(index, "milesPerDay", value): clamp(v || 0, 0.5, Number(capMiles) || 5)
stageMilesPerDay(v, cap) == clamp(HalfMiles(v), 1, capOrDefault(cap))

\* updateStage(index, field, value), from the inputs of a listed stage
updateStage ==
  \E index \in 0..MaxStageIndex, field \in {"weeks", "milesPerDay"}, t \in PlanTexts :
    /\ planEnabled
    /\ index < Len(rampStages)
    /\ rampStages' =
         [rampStages EXCEPT ![index + 1] =
            IF field = "weeks"
            THEN [@ EXCEPT !.weeks = stageWeeks(Number(t).v)]
            ELSE [@ EXCEPT !.milesPerDay = stageMilesPerDay(Number(t).v, capMiles)]]
    /\ UNCHANGED <<planEnabled, planStartDate, capMiles, daysPerWeek, goalDate>>

\* the default goal date "2027-10-12", the last day the model looks at
DefaultGoalDate == MaxDay

\* resetAll, once the confirm() is answered with OK
resetAll ==
  /\ goalMiles' = 1800
  /\ goalDate' = DefaultGoalDate
  /\ logs' = <<>>
  /\ planEnabled' = TRUE
  /\ planStartDate' = today
  /\ capMiles' = HalfMiles(5)
  /\ daysPerWeek' = 7
  /\ rampStages' = DEFAULT_RAMP_STAGES
  /\ appToast' = [kind |-> "Reset complete.", name |-> "", miles |-> 0]
  /\ appEv' = [op |-> "resetAll", ok |-> TRUE, before |-> logs, input |-> <<>>, id |-> 0]
  /\ UNCHANGED <<entryMiles, entryDate, appNextId>>

----------------------------------------------------------------------------
(* The local store: what localStorage holds under STORAGE_KEY, and JSON *)

\* localStorage.getItem(STORAGE_KEY) with nothing stored: null
Missing == [t |-> "missing"]

\* a stored text that JSON.parse throws on
Garbage == [t |-> "garbage"]

\* a stored text that JSON.parse reads as the document doc
Text(doc) == [t |-> "json", doc |-> doc]

\* JSON documents; the ids and dates of the model stand for strings
JNull == [j |-> "null"]
JNum(n) == [j |-> "number", n |-> n]
JStr(s) == [j |-> "string", s |-> s]
JBool(b) == [j |-> "boolean", b |-> b]
JArr(items) == [j |-> "array", items |-> items]
JObj(fields) == [j |-> "object", fields |-> fields]

\* the value JSON.parse builds for a document
RECURSIVE fromJSON(_)
fromJSON(doc) ==
  CASE doc.j = "null" -> Null
    [] doc.j = "number" -> doc.n
    [] doc.j = "string" -> doc.s
    [] doc.j = "boolean" -> doc.b
    [] doc.j = "array" -> [i \in DOMAIN doc.items |-> fromJSON(doc.items[i])]
    [] doc.j = "object" -> [f \in DOMAIN doc.fields |-> fromJSON(doc.fields[f])]

\* JSON.stringify of one entry of part_000
entryDoc(e) ==
  JObj([id |-> JStr(e.id), miles |-> JNum(e.miles), edited |-> JBool(e.edited)])

\* JSON.stringify({ entries })
trackerDoc(es) ==
  JObj([entries |-> JArr([i \in DOMAIN es |-> entryDoc(es[i])])])

\* JSON.stringify of one log of backup.jsx
logDoc(l) ==
  JObj([id |-> JStr(l.id), date |-> JStr(l.date), miles |-> JNum(l.miles)])

\* JSON.stringify of one ramp stage
stageDoc(s) ==
  JObj([weeks |-> JNum(s.weeks), milesPerDay |-> JNum(s.milesPerDay)])

\* JSON.stringify({ goalMiles, goalDate, logs, planEnabled, planStartDate,
\* capMiles, daysPerWeek, rampStages }) of a state r of App
recordDoc(r) ==
  JObj([goalMiles |-> JNum(r.goalMiles),
        goalDate |-> JStr(r.goalDate),
        logs |-> JArr([i \in DOMAIN r.logs |-> logDoc(r.logs[i])]),
        planEnabled |-> JBool(r.planEnabled),
        planStartDate |-> JStr(r.planStartDate),
        capMiles |-> JNum(r.capMiles),
        daysPerWeek |-> JNum(r.daysPerWeek),
        rampStages |-> JArr([i \in DOMAIN r.rampStages |-> stageDoc(r.rampStages[i])])])

\* what App's save effect stores of the state
appRecord ==
  [goalMiles |-> goalMiles, goalDate |-> goalDate, logs |-> logs,
   planEnabled |-> planEnabled, planStartDate |-> planStartDate,
   capMiles |-> capMiles, daysPerWeek |-> daysPerWeek, rampStages |-> rampStages]

appDoc == recordDoc(appRecord)

\* appSaveDeps without goalMiles
appSaveDepsWithoutGoalMiles ==
  <<goalDate, logs, planEnabled, planStartDate, capMiles, daysPerWeek, rampStages>>

\* the dependencies of App's save effect
appSaveDeps ==
  <<goalMiles, goalDate, logs, planEnabled, planStartDate, capMiles, daysPerWeek, rampStages>>

\* part_000's save effect after a handler: it runs when entries has changed
trackerSaveEffect ==
  store' = IF entries' # entries THEN Text(trackerDoc(entries')) ELSE store

\* App's save effect after a handler: it runs when one of its dependencies has
\* changed
appSaveEffect ==
  store' = IF appSaveDeps' # appSaveDeps THEN Text(appDoc') ELSE store

\* part_000's load effect: the entries it hands to setEntries, as <<entries>>,
\* or <<>> when it sets nothing: nothing stored, JSON.parse throws,
\* parsed.entries throws or is not an array
loadedEntries(text) ==
  IF text = Missing \/ text = Garbage THEN <<>>
  ELSE IF text.doc.j # "object" THEN <<>>
  ELSE IF "entries" \notin DOMAIN text.doc.fields THEN <<>>
  ELSE IF text.doc.fields.entries.j # "array" THEN <<>>
  ELSE << fromJSON(text.doc.fields.entries) >>

\* part_000's effects after the first render: the load effect reads the store
\* and may set entries for the next render; the save effect then stores the
\* entries of this render
mountEffects ==
  /\ program = "MountDoomTracker"
  /\ phase = "rendered"
  /\ savedText' = store
  /\ store' = Text(trackerDoc(entries))
  /\ IF loadedEntries(store) = <<>>
     THEN /\ phase' = "started"
          /\ UNCHANGED entries
     ELSE /\ phase' = "loaded"
          /\ entries' = loadedEntries(store)[1]
  /\ UNCHANGED <<inputMiles, isEditingLast, editMiles, toast, toastTimerRef, timers, nextId, ev>>

\* part_000's render with the loaded entries, and the save effect after it
rerenderEffects ==
  /\ program = "MountDoomTracker"
  /\ phase = "loaded"
  /\ store' = Text(trackerDoc(entries))
  /\ phase' = "started"
  /\ UNCHANGED <<trackerVars, savedText>>

\* safeParse(str, fallback): JSON.parse(str) ?? fallback, fallback when it
\* throws; JSON.parse(null) is null
safeParse(str, fallback) ==
  IF str = Missing \/ str = Garbage THEN fallback
  ELSE IF str.doc = JNull THEN fallback
  ELSE str.doc

\* saved?.name ?? fallback
savedOr(parsed, name, fallback) ==
  IF parsed.j # "object" THEN fallback
  ELSE IF name \notin DOMAIN parsed.fields THEN fallback
  ELSE IF parsed.fields[name] = JNull THEN fallback
  ELSE fromJSON(parsed.fields[name])

\* logs.reduce(...) of the first render throws when logs is not an array
renderThrows(parsed) ==
  /\ parsed.j = "object"
  /\ "logs" \in DOMAIN parsed.fields
  /\ parsed.fields.logs.j \notin {"null", "array"}

\* App's first render: the state is taken from the saved record, field by
\* field, and the render throws on logs that are not an array
appRender ==
  LET parsed == safeParse(store, JNull)
  IN /\ program = "App"
     /\ phase = "booting"
     /\ savedText' = store
     /\ goalMiles' = savedOr(parsed, "goalMiles", 1800)
     /\ goalDate' = savedOr(parsed, "goalDate", DefaultGoalDate)
     /\ planEnabled' = savedOr(parsed, "planEnabled", TRUE)
     /\ planStartDate' = savedOr(parsed, "planStartDate", today)
     /\ capMiles' = savedOr(parsed, "capMiles", HalfMiles(5))
     /\ daysPerWeek' = savedOr(parsed, "daysPerWeek", 7)
     /\ rampStages' = savedOr(parsed, "rampStages", DEFAULT_RAMP_STAGES)
     /\ IF renderThrows(parsed)
        THEN /\ phase' = "error"
             /\ UNCHANGED logs
        ELSE /\ phase' = "rendered"
             /\ logs' = savedOr(parsed, "logs", <<>>)
     /\ UNCHANGED <<entryMiles, entryDate, appToast, appNextId, appEv, store>>

\* App's save effect after the first render
appMountEffect ==
  /\ program = "App"
  /\ phase = "rendered"
  /\ store' = Text(appDoc)
  /\ phase' = "started"
  /\ UNCHANGED <<appVars, planVars, savedText>>

\* a handler runs once the program has started
running == phase \in {"started", "ready"} /\ phase' = "ready"

----------------------------------------------------------------------------
(* The milestone resolver on drawn totals *)

Thresholds ==
  {MILESTONES[i].miles : i \in DOMAIN MILESTONES}
    \cup {milestones[i].miles : i \in DOMAIN milestones}

\* the totals probed: every threshold of either table and its neighbours
ProbeTotals ==
  {t \in 0..(Max(Thresholds) + Near) : \E m \in Thresholds : t - m \in (0 - Near)..Near}

\* what both programs resolve for the totals a <= b <= c
resolve ==
  /\ ~probe.done
  /\ probe' = [probe EXCEPT
       !.done = TRUE,
       !.unlocked = getUnlockedMilestone(probe.a),
       !.next = getNextMilestone(probe.a),
       !.lastReached = lastReached(probe.a),
       !.nextMilestone = nextMilestone(probe.a),
       !.ab = newly(probe.a, probe.b),
       !.bc = newly(probe.b, probe.c),
       !.ac = newly(probe.a, probe.c)]
  /\ UNCHANGED <<trackerVars, appVars, planVars, hostVars, storeVars, program>>

----------------------------------------------------------------------------
(* Specifications *)

\* MountDoomTracker after its first render, nothing saved
TrackerInit ==
  /\ entries = <<>>
  /\ inputMiles = <<>>
  /\ isEditingLast = FALSE
  /\ editMiles = <<>>
  /\ toast = "null"
  /\ toastTimerRef = NoTimer
  /\ timers = {}
  /\ nextId = 1
  /\ ev = [op |-> "init", ok |-> TRUE, before |-> <<>>, input |-> <<>>, raised |-> <<>>]

\* App's ledger and goal after its first render, nothing saved
AppInit ==
  /\ logs = <<>>
  /\ entryMiles = <<>>
  /\ entryDate = today
  /\ appToast = [kind |-> "", name |-> "", miles |-> 0]
  /\ goalMiles = 1800
  /\ appNextId = 1
  /\ appEv = [op |-> "init", ok |-> TRUE, before |-> <<>>, input |-> <<>>, id |-> 0]

\* App's plan with nothing saved: saved?.x ?? default
PlanDefault ==
  /\ planEnabled = TRUE
  /\ planStartDate = today
  /\ capMiles = HalfMiles(5)
  /\ daysPerWeek = 7
  /\ rampStages = DEFAULT_RAMP_STAGES
  /\ goalDate = DefaultGoalDate

\* the plans found saved in the store when App starts
SavedPlans ==
  [ planEnabled : {TRUE}, planStartDate : {0}, capMiles : {HalfMiles(5)},
    daysPerWeek : {0, 7},
    rampStages : { <<>>, <<[weeks |-> 1, milesPerDay |-> 4]>> },
    goalDate : {DefaultGoalDate} ]

\* App's plan as loaded from a saved record
PlanLoaded ==
  \E saved \in SavedPlans :
    /\ planEnabled = saved.planEnabled
    /\ planStartDate = saved.planStartDate
    /\ capMiles = saved.capMiles
    /\ daysPerWeek = saved.daysPerWeek
    /\ rampStages = saved.rampStages
    /\ goalDate = saved.goalDate

NoProbe == [done |-> FALSE, a |-> 0, b |-> 0, c |-> 0, unlocked |-> Null, next |-> Null,
            lastReached |-> Null, nextMilestone |-> Null, ab |-> <<>>, bc |-> <<>>,
            ac |-> <<>>]

\* the program has started: its first render and effects are done and the store
\* holds the state
Started ==
  /\ phase = "started"
  /\ store = Text(IF program = "MountDoomTracker" THEN trackerDoc(entries) ELSE appDoc)

\* the ledgers: one of the two programs runs, from an empty store, on a host
\* without daylight saving
Init ==
  /\ program \in {"MountDoomTracker", "App"}
  /\ today = 0
  /\ dstStart = NoDate
  /\ TrackerInit
  /\ AppInit
  /\ PlanDefault
  /\ probe = NoProbe
  /\ Started
  /\ savedText = Missing

Next ==
  \/ running /\ program = "MountDoomTracker" /\ setInputMiles /\ UNCHANGED <<appVars, planVars, hostVars, savedText, probe, program>>
       /\ trackerSaveEffect
  \/ running /\ program = "MountDoomTracker" /\ setEditMiles /\ UNCHANGED <<appVars, planVars, hostVars, savedText, probe, program>>
       /\ trackerSaveEffect
  \/ running /\ program = "MountDoomTracker" /\ addMiles /\ UNCHANGED <<appVars, planVars, hostVars, savedText, probe, program>>
       /\ trackerSaveEffect
  \/ running /\ program = "MountDoomTracker" /\ deleteLast /\ UNCHANGED <<appVars, planVars, hostVars, savedText, probe, program>>
       /\ trackerSaveEffect
  \/ running /\ program = "MountDoomTracker" /\ startEditLast /\ UNCHANGED <<appVars, planVars, hostVars, savedText, probe, program>>
       /\ trackerSaveEffect
  \/ running /\ program = "MountDoomTracker" /\ saveEditLast /\ UNCHANGED <<appVars, planVars, hostVars, savedText, probe, program>>
       /\ trackerSaveEffect
  \/ running /\ program = "MountDoomTracker" /\ cancelEditLast /\ UNCHANGED <<appVars, planVars, hostVars, savedText, probe, program>>
       /\ trackerSaveEffect
  \/ running /\ program = "MountDoomTracker" /\ toastTimeout /\ UNCHANGED <<appVars, planVars, hostVars, savedText, probe, program>>
       /\ trackerSaveEffect
  \/ running /\ program = "App" /\ setEntryMiles /\ UNCHANGED <<trackerVars, planVars, hostVars, savedText, probe, program>>
       /\ appSaveEffect
  \/ running /\ program = "App" /\ setEntryDate /\ UNCHANGED <<trackerVars, planVars, hostVars, savedText, probe, program>>
       /\ appSaveEffect
  \/ running /\ program = "App" /\ setGoalMiles /\ UNCHANGED <<trackerVars, planVars, hostVars, savedText, probe, program>>
       /\ appSaveEffect
  \/ running /\ program = "App" /\ addLog /\ UNCHANGED <<trackerVars, planVars, hostVars, savedText, probe, program>>
       /\ appSaveEffect
  \/ running /\ program = "App" /\ removeLog /\ UNCHANGED <<trackerVars, planVars, hostVars, savedText, probe, program>>
       /\ appSaveEffect
  \/ running /\ program = "App" /\ resetAll /\ UNCHANGED <<trackerVars, hostVars, savedText, probe, program>>
       /\ appSaveEffect

Spec == Init /\ [][Next]_vars

\* App's plan: the plan is the default one or a saved one, the host's zone has
\* daylight saving or not, and the ledger stays empty
PlanInit ==
  /\ program = "App"
  /\ today \in {0, MaxDay}
  /\ dstStart \in {NoDate, SpringDay}
  /\ TrackerInit
  /\ AppInit
  /\ PlanDefault \/ PlanLoaded
  /\ probe = NoProbe
  /\ Started
  /\ savedText = IF rampStages = DEFAULT_RAMP_STAGES THEN Missing ELSE store

PlanNext ==
  \/ running /\ setPlanEnabled /\ UNCHANGED <<trackerVars, appVars, hostVars, savedText, probe, program>>
       /\ appSaveEffect
  \/ running /\ setPlanStartDate /\ UNCHANGED <<trackerVars, appVars, hostVars, savedText, probe, program>>
       /\ appSaveEffect
  \/ running /\ setGoalDate /\ UNCHANGED <<trackerVars, appVars, hostVars, savedText, probe, program>>
       /\ appSaveEffect
  \/ running /\ setDaysPerWeek /\ UNCHANGED <<trackerVars, appVars, hostVars, savedText, probe, program>>
       /\ appSaveEffect
  \/ running /\ setCapMiles /\ UNCHANGED <<trackerVars, appVars, hostVars, savedText, probe, program>>
       /\ appSaveEffect
  \/ running /\ updateStage /\ UNCHANGED <<trackerVars, appVars, hostVars, savedText, probe, program>>
       /\ appSaveEffect

SpecPlan == PlanInit /\ [][PlanNext]_vars

\* the resolver: totals a <= b <= c are drawn and resolved
ResolverInit ==
  /\ program = "resolver"
  /\ today = 0
  /\ dstStart = NoDate
  /\ TrackerInit
  /\ AppInit
  /\ PlanDefault
  /\ \E a, b, c \in ProbeTotals :
       /\ a <= b
       /\ b <= c
       /\ probe = [NoProbe EXCEPT !.done = FALSE, !.a = a, !.b = b, !.c = c]
  /\ phase = "started"
  /\ store = Missing
  /\ savedText = Missing

ResolverNext == resolve

SpecResolver == ResolverInit /\ [][ResolverNext]_vars

----------------------------------------------------------------------------
(* Claims about the milestone resolver, under SpecResolver *)

Range(f) == {f[i] : i \in DOMAIN f}

ThresholdsUpTo(table, t) == {table[i].miles : i \in {j \in DOMAIN table : table[j].miles <= t}}

ThresholdsAbove(table, t) == {table[i].miles : i \in {j \in DOMAIN table : table[j].miles > t}}

\* current is the milestone of table with the greatest threshold <= t, and nxt
\* the one with the smallest threshold > t, or none when there is none
ResolvedFor(table, t, current, nxt) ==
  /\ current \in Range(table)
  /\ current.miles <= t
  /\ current.miles = Max(ThresholdsUpTo(table, t))
  /\ IF ThresholdsAbove(table, t) = {} THEN nxt = Null
     ELSE /\ nxt \in Range(table)
          /\ nxt.miles > t
          /\ nxt.miles = Min(ThresholdsAbove(table, t))

\* C1: for every total t >= 0, in both programs, the current (last unlocked)
\* milestone has a threshold <= t and is the one with the greatest such
\* threshold, and the next milestone is none or has a threshold > t and is the
\* one with the smallest such threshold.
C1_CurrentAndNext ==
  probe.done =>
    /\ ResolvedFor(MILESTONES, probe.a, probe.unlocked, probe.next)
    /\ ResolvedFor(milestones, probe.a, probe.lastReached, probe.nextMilestone)

\* a total that sits exactly on a threshold has been resolved
C1_Witness ==
  /\ probe.done
  /\ probe.a = 570
  /\ probe.unlocked.id = "rivendell"
  /\ probe.next.id = "moria"
  /\ probe.lastReached.id = "rivendell"

\* C3: no milestone is crossed between equal totals, and for a <= b <= c the
\* milestones crossed from a to c include every milestone crossed from a to b
\* and every milestone crossed from b to c.
C3_CrossedMonotonic ==
  probe.done =>
    /\ probe.a = probe.b => probe.ab = <<>>
    /\ probe.b = probe.c => probe.bc = <<>>
    /\ probe.a = probe.c => probe.ac = <<>>
    /\ Range(probe.ab) \cup Range(probe.bc) \subseteq Range(probe.ac)

\* both legs of a <= b <= c cross a milestone
C3_Witness ==
  /\ probe.done
  /\ probe.a < probe.b
  /\ probe.b < probe.c
  /\ probe.ab # <<>>
  /\ probe.bc # <<>>

----------------------------------------------------------------------------
(* Claims about the ledgers, under Spec *)

\* the milestones of table with before < threshold <= after
CrossedIn(table, before, after) ==
  {m \in Range(table) : before < m.miles /\ m.miles <= after}

\* of a non-empty set of milestones, the one with the highest threshold
Furthest(ms) == CHOOSE m \in ms : \A o \in ms : o.miles <= m.miles

\* the text of every whole number of miles from 1 to 2000
TextOf == [n \in 1..2000 |-> String(n)]

PositiveTexts == Range(TextOf)

\* the text t is that of a whole number of miles > 0
IsPositiveText(t) == t \in PositiveTexts

\* the number whose text t is
ValueOfText(t) == CHOOSE n \in DOMAIN TextOf : TextOf[n] = t

\* C2: a successful append or editLast that moves the total from prev to next
\* raises a milestone notification if and only if some milestone has
\* prev < threshold <= next, and then exactly one, naming the crossed milestone
\* with the highest threshold, which is the current milestone of next; an edit
\* that lowers or keeps the total raises none.
C2_OneNotificationForFurthest ==
  /\ (program = "MountDoomTracker" /\ ev.op \in {"addMiles", "saveEditLast"} /\ ev.ok) =>
       LET prev == totalMiles(ev.before)
           next == totalMiles(entries)
           crossed == CrossedIn(MILESTONES, prev, next)
       IN /\ crossed = {} <=> ev.raised = <<>>
          /\ crossed # {} =>
               /\ ev.raised = <<Furthest(crossed).id>>
               /\ ev.raised = <<getUnlockedMilestone(next).id>>
          /\ next <= prev => ev.raised = <<>>
  /\ (program = "App" /\ appEv.op = "addLog" /\ appEv.ok) =>
       LET prev == appTotalMiles(appEv.before)
           next == appTotalMiles(logs)
           crossed == CrossedIn(milestones, prev, next)
       IN /\ crossed = {} <=> appToast.kind # "Unlocked"
          /\ crossed # {} =>
               /\ appToast.name = Furthest(crossed).id
               /\ appToast.name = lastReached(next).id

\* an append has crossed two milestones at once and named the further one
C2_Witness ==
  /\ program = "MountDoomTracker"
  /\ ev.op = "addMiles"
  /\ ev.ok
  /\ totalMiles(ev.before) = 600
  /\ totalMiles(entries) = 1200
  /\ ev.raised = <<"lothlorien">>

\* C7 as claimed: the percent to the goal is
\* clamp(total / max(1, goalTarget) * 100, 0, 100): it lies in [0, 100] and a
\* goal below 1 counts as 1.
C7_PercentOfMaxOneGoal ==
  program = "App" =>
    LET total == appTotalMiles(logs)
        d == IF goalMiles < 1 THEN 1 ELSE goalMiles
        pct == progressPct(total, goalMiles)
    IN /\ pct.den > 0
       /\ pct.num >= 0
       /\ pct.num <= 100 * pct.den
       /\ IF total >= d THEN pct = [num |-> 100, den |-> 1]
          ELSE pct.num * d = total * 100 * pct.den

\* C7, amended: the percent to the goal is clamp(total / d * 100, 0, 100) where
\* d is the goal, or 1 when the goal is 0; it lies in [0, 100], is 0 for every
\* total when the goal is negative, and 100 from total >= d on when d > 0.
C7_PercentOfGoalOrOne ==
  program = "App" =>
    LET total == appTotalMiles(logs)
        d == IF goalMiles = 0 THEN 1 ELSE goalMiles
        pct == progressPct(total, goalMiles)
    IN /\ pct.den > 0
       /\ pct.num >= 0
       /\ pct.num <= 100 * pct.den
       /\ IF d < 0 THEN pct = [num |-> 0, den |-> 1]
          ELSE IF total >= d THEN pct = [num |-> 100, den |-> 1]
          ELSE pct.num * d = total * 100 * pct.den

\* miles are logged against a negative goal
C7_Witness ==
  /\ program = "App"
  /\ goalMiles < 0
  /\ appTotalMiles(logs) > 0

\* C8: an append whose distance is not a number or is <= 0 is rejected: the
\* ledger, with its entries, their order, distances and edited flags, and the
\* total are as before.
C8_RejectedAppendChangesNothing ==
  /\ (program = "MountDoomTracker" /\ ev.op = "addMiles" /\ ~IsPositiveText(ev.input)) =>
       /\ ~ev.ok
       /\ entries = ev.before
       /\ totalMiles(entries) = totalMiles(ev.before)
  /\ (program = "App" /\ appEv.op = "addLog" /\ ~IsPositiveText(appEv.input)) =>
       /\ ~appEv.ok
       /\ logs = appEv.before
       /\ appTotalMiles(logs) = appTotalMiles(appEv.before)

\* an append of 0 miles to a ledger that holds an entry has been rejected
C8_Witness ==
  /\ program = "MountDoomTracker"
  /\ ev.op = "addMiles"
  /\ ev.input = <<"0">>
  /\ ~ev.ok
  /\ entries # <<>>

\* C9: a successful editLast(newDistance) changes only the most recently
\* appended entry: its distance becomes newDistance and edited becomes true, the
\* length and every other entry stay, and the total becomes
\* oldTotal - oldDistance + newDistance; editLast with newDistance <= 0, or on
\* an empty ledger, changes nothing.
C9_EditLastChangesOnlyLast ==
  /\ (program = "MountDoomTracker" /\ ev.op = "saveEditLast") =>
       LET n == Len(ev.before)
       IN IF ev.ok
          THEN /\ n > 0
               /\ IsPositiveText(ev.input)
               /\ Len(entries) = n
               /\ \A i \in 1..(n - 1) : entries[i] = ev.before[i]
               /\ entries[n].id = ev.before[n].id
               /\ entries[n].miles = ValueOfText(ev.input)
               /\ entries[n].edited
               /\ totalMiles(entries) =
                    totalMiles(ev.before) - ev.before[n].miles + ValueOfText(ev.input)
          ELSE /\ entries = ev.before
               /\ ~IsPositiveText(ev.input) \/ n = 0
  /\ (program = "MountDoomTracker" /\ ev.op = "saveEditLast" /\ ~IsPositiveText(ev.input)) =>
       ~ev.ok
  /\ \A t \in InputTexts : saveEditLastRejects(parseFloat(t), Null)

\* the last of two entries has been edited to another distance
C9_Witness ==
  /\ program = "MountDoomTracker"
  /\ ev.op = "saveEditLast"
  /\ ev.ok
  /\ Len(entries) = 2
  /\ entries[2].miles # ev.before[2].miles
  /\ ~ev.before[1].edited

\* ls is before without its element at position k
Without(before, k) == SubSeq(before, 1, k - 1) \o SubSeq(before, k + 1, Len(before))

\* C10: deleteLast on an empty ledger and deleteById with an id the ledger
\* does not hold leave the ledger as it is, however often they are repeated; on
\* a non-empty ledger deleteLast removes exactly the last entry and deleteById
\* exactly the entry with that id, the other entries and their order staying.
C10_DeleteRemovesOnlyTarget ==
  /\ (program = "MountDoomTracker" /\ ev.op = "deleteLast") =>
       IF ev.before = <<>> THEN entries = <<>>
       ELSE entries = Without(ev.before, Len(ev.before))
  /\ (program = "App" /\ appEv.op = "removeLog") =>
       LET at == {k \in DOMAIN appEv.before : appEv.before[k].id = appEv.id}
       IN IF at = {} THEN logs = appEv.before
          ELSE /\ Cardinality(at) = 1
               /\ \E k \in at : logs = Without(appEv.before, k)

\* the first of two logs has been deleted by its id
C10_Witness ==
  /\ program = "App"
  /\ appEv.op = "removeLog"
  /\ Len(appEv.before) = 2
  /\ logs = <<appEv.before[2]>>

----------------------------------------------------------------------------
(* Claims about the ramp-up plan, under SpecPlan *)

\* the days that come before stage i (from 1) of stages
RECURSIVE DaysBeforeStage(_, _)
DaysBeforeStage(stages, i) ==
  IF i <= 1 THEN 0 ELSE DaysBeforeStage(stages, i - 1) + stages[i - 1].weeks * 7

\* the rate of the stage whose range of weeks * 7 days holds day d, or the cap
\* past all stages
RateOfDay(d, stages, cap) ==
  LET holds == {i \in DOMAIN stages :
                  /\ DaysBeforeStage(stages, i) <= d
                  /\ d < DaysBeforeStage(stages, i) + stages[i].weeks * 7}
  IN IF holds = {} THEN cap ELSE stages[CHOOSE i \in holds : TRUE].milesPerDay

RECURSIVE SumOfRates(_, _, _)
SumOfRates(ds, stages, cap) ==
  IF ds = {} THEN 0
  ELSE LET d == CHOOSE x \in ds : TRUE
       IN RateOfDay(d, stages, cap) + SumOfRates(ds \ {d}, stages, cap)

\* the sum of the rates of the active days among the offsets 0..(target - start)
PlannedByCalendar(start, target, stages, cap, dpw) ==
  IF target < start THEN 0
  ELSE SumOfRates({d \in 0..(target - start) : d % 7 < dpw}, stages, cap)

OneWeekAtTwo == <<[weeks |-> 1, milesPerDay |-> HalfMiles(2)]>>

\* the plan of the state, through the date target, as the engine computes it
PlannedThrough(target) ==
  plannedMilesThroughDate(planStartDate, target, rampStages, capMiles, daysPerWeek, dstStart)

\* PlannedThrough(0), ..., PlannedThrough(last), in this order
RECURSIVE PlannedThroughDays(_)
PlannedThroughDays(last) ==
  IF last < 0 THEN <<>>
  ELSE Append(PlannedThroughDays(last - 1), PlannedThrough(last))

\* C4: plannedMilesThroughDate(start, target, stages, cap, daysPerWeek) is 0
\* when target is before start, and otherwise the sum, over the day offsets d
\* from 0 to target - start with d mod 7 < daysPerWeek, of the rate of the stage
\* whose range of weeks * 7 days holds d, or of cap past all stages; one stage
\* {weeks 1, rate 2} with cap 5 gives 14 through day 6 and 49 through day 13 at
\* 7 days a week, and 10 through day 6 at 5 days a week.
C4_PlannedIsCalendarSum ==
  /\ planStartDate # NoDate =>
       \A target \in Days :
         PlannedThrough(target) =
           PlannedByCalendar(planStartDate, target, rampStages, capMiles, daysPerWeek)
  /\ plannedMilesThroughDate(0, 6, OneWeekAtTwo, HalfMiles(5), 7, dstStart) = HalfMiles(14)
  /\ plannedMilesThroughDate(0, 13, OneWeekAtTwo, HalfMiles(5), 7, dstStart) = HalfMiles(49)
  /\ plannedMilesThroughDate(0, 6, OneWeekAtTwo, HalfMiles(5), 5, dstStart) = HalfMiles(10)

\* the same on a host whose zone has no daylight saving
C4_PlannedIsCalendarSumWithoutDst ==
  dstStart = NoDate => C4_PlannedIsCalendarSum

\* C5: for a fixed plan, plannedThrough is non-decreasing in its date: for all
\* dates d1 <= d2, plannedThrough(d1) <= plannedThrough(d2).
C5_PlannedNonDecreasing ==
  LET planned == PlannedThroughDays(MaxDay)
  IN \A d1, d2 \in Days : d1 <= d2 => planned[d1 + 1] <= planned[d2 + 1]

\* a plan of one stage above the cap, 5 days a week, on a host that springs
\* forward within the plan, grows over the days asked about
C5_Witness ==
  /\ dstStart = SpringDay
  /\ planStartDate = 0
  /\ daysPerWeek = 5
  /\ rampStages = OneWeekAtTwo
  /\ capMiles = HalfMiles(1)
  /\ PlannedThrough(0) > 0
  /\ PlannedThrough(MaxDay) > PlannedThrough(SpringDay)

\* C6: with the plan enabled and daysPerWeek 0, every day is inactive and the
\* planned distance reported through today and through the goal date is 0.
C6_ZeroDaysPlansNothing ==
  (planEnabled /\ daysPerWeek = 0) =>
    /\ \A d \in Days : ~isActiveDay(d, daysPerWeek)
    /\ plannedToToday = 0
    /\ plannedToGoal = 0

----------------------------------------------------------------------------
(* Claims about the order of the ledgers, under Spec *)

\* the ids of es, in stored order; ids are handed out in the order of appending
IdsOf(es) == [i \in DOMAIN es |-> es[i].id]

\* ids holds the ids of a ledger in the order in which they were appended
InAppendOrder(ids) == \A i, j \in DOMAIN ids : i < j => ids[i] < ids[j]

\* C11: after any sequence of appends and deletes the stored entries are in the
\* order in which they were appended, so that the last stored entry is the most
\* recently appended of them, whatever the dates of the entries.
C11_StoredInAppendOrder ==
  /\ program = "MountDoomTracker" =>
       /\ InAppendOrder(IdsOf(entries))
       /\ entries # <<>> => \A i \in DOMAIN entries : entries[i].id <= lastEntry.id
  /\ program = "App" =>
       /\ InAppendOrder(IdsOf(logs))
       /\ logs # <<>> => \A i \in DOMAIN logs : logs[i].id <= logs[Len(logs)].id

\* the distances of es added up from the last entry back to the first
RECURSIVE SumOfMiles(_)
SumOfMiles(es) == IF es = <<>> THEN 0 ELSE Head(es).miles + SumOfMiles(Tail(es))

\* C12: from an empty ledger, after any sequence of append, editLast,
\* deleteLast and deleteById, accepted or rejected, every entry of the ledger has
\* a distance > 0 and the reported total is the sum of the distances of the
\* entries now in the ledger, hence >= 0.
C12_TotalIsSumOfPositive ==
  /\ program = "MountDoomTracker" =>
       /\ \A i \in DOMAIN entries : entries[i].miles > 0
       /\ totalMiles(entries) = SumOfMiles(entries)
       /\ totalMiles(entries) >= 0
  /\ program = "App" =>
       /\ \A i \in DOMAIN logs : logs[i].miles > 0
       /\ appTotalMiles(logs) = SumOfMiles(logs)
       /\ appTotalMiles(logs) >= 0

\* an edit to a distance <= 0 has been rejected on a ledger of two entries, the
\* last of them edited before
C12_Witness ==
  /\ program = "MountDoomTracker"
  /\ ev.op = "saveEditLast"
  /\ ~ev.ok
  /\ Len(entries) = 2
  /\ entries[2].edited
  /\ totalMiles(entries) = 720

----------------------------------------------------------------------------
(* The reward toast and its timer, under SpecToast *)

\* the handles the host hands out while at most one timer is pending
TimerHandles == 1..2

\* MountDoomTracker alone
ToastInit ==
  /\ Init
  /\ program = "MountDoomTracker"

ToastNext ==
  \/ running /\ setInputMiles /\ UNCHANGED <<appVars, planVars, hostVars, savedText, probe, program>>
       /\ trackerSaveEffect
  \/ running /\ setEditMiles /\ UNCHANGED <<appVars, planVars, hostVars, savedText, probe, program>>
       /\ trackerSaveEffect
  \/ running /\ addMiles /\ UNCHANGED <<appVars, planVars, hostVars, savedText, probe, program>>
       /\ trackerSaveEffect
  \/ running /\ deleteLast /\ UNCHANGED <<appVars, planVars, hostVars, savedText, probe, program>>
       /\ trackerSaveEffect
  \/ running /\ startEditLast /\ UNCHANGED <<appVars, planVars, hostVars, savedText, probe, program>>
       /\ trackerSaveEffect
  \/ running /\ saveEditLast /\ UNCHANGED <<appVars, planVars, hostVars, savedText, probe, program>>
       /\ trackerSaveEffect
  \/ running /\ cancelEditLast /\ UNCHANGED <<appVars, planVars, hostVars, savedText, probe, program>>
       /\ trackerSaveEffect
  \/ running /\ toastTimeout /\ UNCHANGED <<appVars, planVars, hostVars, savedText, probe, program>>
       /\ trackerSaveEffect

\* the host runs the callback of a timer that stays pending
ToastFairness ==
  \A h \in TimerHandles :
    WF_vars(running /\ timerFires(h) /\ UNCHANGED <<appVars, planVars, hostVars, savedText, probe, program>>
              /\ trackerSaveEffect)

SpecToast == ToastInit /\ [][ToastNext]_vars /\ ToastFairness

\* a step of an operation that raises a milestone notification
RaisesToast == ev' # ev /\ ev'.raised # <<>>

\* a step in which a timer's callback clears the notification on display
DismissesToast == toast # "null" /\ toast' = "null" /\ timers' # timers

\* C13: at most one auto-dismiss timer is pending at any time; raising a
\* notification cancels the pending dismissal and schedules a new one; a
\* notification is cleared only by the dismissal scheduled with it, never by one
\* scheduled for an earlier notification; and a notification that is neither
\* replaced nor cleared by a delete is eventually dismissed.
C13_OneTimerRestarted ==
  /\ [](Cardinality(timers) <= 1)
  /\ [](toast # "null" => timers = {toastTimerRef})
  /\ [][RaisesToast =>
          /\ toastTimerRef' # toastTimerRef
          /\ timers' = {toastTimerRef'}
          /\ toast' # "null"]_vars
  /\ [][DismissesToast => timers \ timers' = {toastTimerRef}]_vars
  /\ \A h \in TimerHandles :
       (toast # "null" /\ toastTimerRef = h) ~> (toast = "null" \/ toastTimerRef # h)

\* a second notification has been cleared by a delete while its dismissal is
\* still pending
C13_Witness ==
  /\ ev.op = "deleteLast"
  /\ ev.ok
  /\ toast = "null"
  /\ toastTimerRef = 2
  /\ timers = {2}

----------------------------------------------------------------------------
(* Startup on a stored text, under SpecStartup and SpecStore *)

\* stored texts that are no record of part_000: nothing, no JSON, JSON that is
\* no object, an object without entries, and entries that are no array
TrackerMalformed ==
  { Missing, Garbage, Text(JNull), Text(JNum(5)), Text(JArr(<<>>)),
    Text(JObj([version |-> JNum(9)])),
    Text(JObj([entries |-> JNull])),
    Text(JObj([entries |-> JNum(5)])),
    Text(JObj([entries |-> JStr(0)])),
    Text(JObj([entries |-> JObj([length |-> JNum(1)])])) }

\* the ledgers found saved by part_000; the ids of saved entries are 0, -1, ...
SavedEntries ==
  LET entry(i) == [id : {1 - i}, miles : {120, 600}, edited : BOOLEAN]
  IN { <<>> } \cup { <<e>> : e \in entry(1) }
       \cup { <<e1, e2>> : e1 \in entry(1), e2 \in entry(2) }

TrackerTexts == TrackerMalformed \cup { Text(trackerDoc(es)) : es \in SavedEntries }

\* a field that a saved object does not have
Absent == [j |-> "absent"]

SavedFieldNames == {"goalMiles", "logs", "planEnabled", "daysPerWeek", "rampStages"}

\* what the fields of an object found saved by App hold, or that they are absent
SavedFields ==
  [ goalMiles : {Absent, JNum(0), JNum(500)},
    logs : {Absent, JNull, JNum(5), JObj([length |-> JNum(1)]), JArr(<<>>),
            JArr(<<logDoc([id |-> 0, date |-> 0, miles |-> 120])>>)},
    planEnabled : {Absent, JBool(FALSE)},
    daysPerWeek : {Absent, JNum(3)},
    rampStages : {Absent, JArr(<<stageDoc([weeks |-> 1, milesPerDay |-> 4])>>)} ]

\* the object with the fields of choice that are not absent
SavedObject(choice) ==
  JObj([n \in {m \in SavedFieldNames : choice[m] # Absent} |-> choice[n]])

AppTexts ==
  { Missing, Garbage, Text(JNull), Text(JNum(5)) }
    \cup { Text(SavedObject(choice)) : choice \in SavedFields }

\* a program about to start on one of the stored texts: part_000 has rendered
\* with its initial state, App is about to render
StartupInit ==
  /\ program \in {"MountDoomTracker", "App"}
  /\ today = 0
  /\ dstStart = NoDate
  /\ TrackerInit
  /\ AppInit
  /\ PlanDefault
  /\ probe = NoProbe
  /\ store \in (IF program = "MountDoomTracker" THEN TrackerTexts ELSE AppTexts)
  /\ savedText = Missing
  /\ phase = IF program = "MountDoomTracker" THEN "rendered" ELSE "booting"

StartupNext ==
  \/ mountEffects /\ UNCHANGED <<appVars, planVars, hostVars, probe, program>>
  \/ rerenderEffects /\ UNCHANGED <<appVars, planVars, hostVars, probe, program>>
  \/ appRender /\ UNCHANGED <<trackerVars, hostVars, probe, program>>
  \/ appMountEffect /\ UNCHANGED <<trackerVars, hostVars, probe, program>>

SpecStartup == StartupInit /\ [][StartupNext]_vars

\* the text holds no record of the program: it is missing, is no JSON, is no
\* object, or its ledger field is absent or is no array
Malformed(text) ==
  \/ text \in {Missing, Garbage}
  \/ text.doc.j # "object"
  \/ LET ledger == IF program = "MountDoomTracker" THEN "entries" ELSE "logs"
     IN \/ ledger \notin DOMAIN text.doc.fields
        \/ text.doc.fields[ledger].j # "array"

\* the configuration of App is the default one
DefaultConfig ==
  /\ goalMiles = 1800
  /\ goalDate = DefaultGoalDate
  /\ PlanDefault

\* C14: a stored text that is missing, cannot be parsed or has the wrong shape
\* (its entries / logs field is absent or is no list) is treated as no saved
\* state: the program starts with an empty ledger and the default configuration
\* and reaches no error state.
C14_MalformedIsNoSavedState ==
  (phase \in {"started", "error"} /\ Malformed(savedText)) =>
    /\ phase # "error"
    /\ program = "MountDoomTracker" => entries = <<>>
    /\ program = "App" => logs = <<>> /\ DefaultConfig

\* the same for part_000 alone
C14_TrackerMalformedIsNoSavedState ==
  program = "MountDoomTracker" => C14_MalformedIsNoSavedState

\* the same for App when the stored text is missing, is no JSON or is no object
C14_AppUnreadableIsNoSavedState ==
  (program = "App" /\ phase \in {"started", "error"}
     /\ (savedText \in {Missing, Garbage} \/ savedText.doc.j # "object")) =>
    /\ phase # "error"
    /\ logs = <<>>
    /\ DefaultConfig

\* a record found saved by part_000: one entry, edited
SavedTrackerText ==
  Text(trackerDoc(<<[id |-> 0, miles |-> 600, edited |-> TRUE]>>))

\* a record found saved by App: one log, and no field at its default
SavedAppText ==
  Text(recordDoc([goalMiles |-> 500, goalDate |-> 1,
                  logs |-> <<[id |-> 0, date |-> 0, miles |-> 120]>>,
                  planEnabled |-> FALSE, planStartDate |-> 1,
                  capMiles |-> HalfMiles(3), daysPerWeek |-> 3,
                  rampStages |-> <<[weeks |-> 1, milesPerDay |-> 4]>>]))

\* a program about to start on a saved record
StoreInit ==
  /\ program \in {"MountDoomTracker", "App"}
  /\ today = 0
  /\ dstStart = NoDate
  /\ TrackerInit
  /\ AppInit
  /\ PlanDefault
  /\ probe = NoProbe
  /\ store = IF program = "MountDoomTracker" THEN SavedTrackerText ELSE SavedAppText
  /\ savedText = Missing
  /\ phase = IF program = "MountDoomTracker" THEN "rendered" ELSE "booting"

\* startup, and then the handlers of the ledgers
StoreNext ==
  \/ StartupNext
  \/ Next

SpecStore == StoreInit /\ [][StoreNext]_vars

\* the text holds a record of the program with all its fields
WellFormed(text) ==
  /\ ~Malformed(text)
  /\ program = "App" => DOMAIN text.doc.fields = DOMAIN appRecord

\* C15: once startup and each later change of the ledger or the configuration
\* are done, the stored record reads back as exactly the state in memory; and
\* after a start on a well-formed saved record, before any operation, the store
\* holds that record again and the state in memory is the one the record reads
\* as.
C15_StoreReadsBackAsState ==
  /\ (program = "MountDoomTracker" /\ phase \in {"started", "ready"}) =>
       loadedEntries(store) = <<entries>>
  /\ (program = "App" /\ phase \in {"started", "ready"}) =>
       /\ store.t = "json"
       /\ fromJSON(safeParse(store, JNull)) = appRecord
  /\ (phase = "started" /\ WellFormed(savedText)) =>
       /\ store = savedText
       /\ program = "MountDoomTracker" => <<entries>> = loadedEntries(savedText)
       /\ program = "App" => appRecord = fromJSON(savedText.doc)

\* the entry loaded from a saved record has been edited to another distance
C15_Witness ==
  /\ program = "MountDoomTracker"
  /\ phase = "ready"
  /\ savedText = SavedTrackerText
  /\ ev.op = "saveEditLast"
  /\ ev.ok
  /\ entries = <<[id |-> 0, miles |-> 120, edited |-> TRUE]>>

----------------------------------------------------------------------------
(* Claims about the plan's parameters, under SpecPlan *)

\* C16: from the default plan, after any sequence of stage edits, cap changes
\* and days-per-week changes, every ramp stage has weeks in 1..52 and a rate in
\* [0.5, the current cap], the cap is in [1, 20] and the active days per week
\* are in 1..7.
C16_PlanWithinRanges ==
  savedText = Missing =>
    /\ \A i \in DOMAIN rampStages :
         /\ rampStages[i].weeks \in 1..52
         /\ rampStages[i].milesPerDay >= 1
         /\ rampStages[i].milesPerDay <= capMiles
    /\ capMiles \in HalfMiles(1)..HalfMiles(20)
    /\ daysPerWeek \in 1..7

\* the same with every rate in [0.5, 20], whatever the current cap
C16_PlanWithinFixedRanges ==
  savedText = Missing =>
    /\ \A i \in DOMAIN rampStages :
         /\ rampStages[i].weeks \in 1..52
         /\ rampStages[i].milesPerDay \in 1..HalfMiles(20)
    /\ capMiles \in HalfMiles(1)..HalfMiles(20)
    /\ daysPerWeek \in 1..7

\* today's target of the plan of the state, were today the date d
TodaysPlanned(d) ==
  todaysPlannedMiles(planStartDate, d, rampStages, capMiles, daysPerWeek, dstStart)

\* the plan through the day before d; the day before day 0 is before every
\* plan start, for which plannedMilesThroughDate returns 0
PlannedThroughDayBefore(d) == IF d = 0 THEN 0 ELSE PlannedThrough(d - 1)

\* C17: for every date d on or after the plan start, today's target is
\* plannedThrough(d) - plannedThrough(d - 1 day); it is the rate of the stage
\* that holds the day's offset from the start (the cap past the last stage)
\* when the day is active, and 0 when the day is inactive or before the start.
C17_TargetIsPlannedDifference ==
  planStartDate # NoDate =>
    \A d \in Days :
      /\ d >= planStartDate =>
           TodaysPlanned(d) = PlannedThrough(d) - PlannedThroughDayBefore(d)
      /\ TodaysPlanned(d) =
           IF d < planStartDate THEN 0
           ELSE IF (d - planStartDate) % 7 < daysPerWeek
             THEN RateOfDay(d - planStartDate, rampStages, capMiles)
           ELSE 0

\* the same on a host whose zone has no daylight saving
C17_TargetIsPlannedDifferenceWithoutDst ==
  dstStart = NoDate => C17_TargetIsPlannedDifference

----------------------------------------------------------------------------
(* Claims about edit mode, under Spec *)

\* every entry of after but the last is the entry of before at its place, and
\* the last one has the id of the last one of before
SameButLastMiles(before, after) ==
  /\ Len(after) = Len(before)
  /\ \A i \in 1..(Len(before) - 1) : after[i] = before[i]
  /\ Len(before) > 0 => after[Len(after)].id = before[Len(before)].id

\* C18: edit mode is on only while the ledger is non-empty.  While edit mode
\* stays on the ledger is as it was when the edit was started, so that the
\* entry that is last when the edit is saved is the one that was last then:
\* every append and every deleteLast leaves edit mode off, a step that ends
\* edit mode without either (a save or a cancel) keeps every entry but the
\* last and the id of the last, and cancelling leaves the ledger unchanged.
C18_EditModeOnLastEntry ==
  /\ [](isEditingLast => entries # <<>>)
  /\ [][(isEditingLast /\ isEditingLast') => entries' = entries]_vars
  /\ [][Len(entries') # Len(entries) => ~isEditingLast']_vars
  /\ [][(isEditingLast /\ ~isEditingLast' /\ Len(entries') = Len(entries))
          => SameButLastMiles(entries, entries')]_vars
  /\ [][(isEditingLast /\ ~isEditingLast' /\ Len(entries') = Len(entries)
          /\ ev' = ev) => entries' = entries]_vars

\* an edit of the second of two entries was saved with a new distance: the
\* first entry and the id of the second are as before, and edit mode is off
C18_Witness ==
  /\ program = "MountDoomTracker"
  /\ ev.op = "saveEditLast" /\ ev.ok
  /\ ~isEditingLast
  /\ Len(entries) = 2
  /\ entries[1] = ev.before[1]
  /\ ~entries[1].edited
  /\ entries[2].id = ev.before[2].id
  /\ entries[2].miles # ev.before[2].miles

====
